---- MODULE Spec2Model ----
(***************************************************************************)
(* Model of the Wayback change detector: the rate limited fetcher          *)
(* (src/src/RateLimitedFetcher.ts), the backward similarity scan, the      *)
(* recommendation and the whole run of                                     *)
(* WaybackScraper.analyzeWebsiteHistory (src/src/WebScraper.ts,            *)
(* src/src/index.ts), and the date conversions (src/src/utils/date.ts).    *)
(*                                                                         *)
(* The clock of the fetcher counts milliseconds; the timestamp of a        *)
(* snapshot is a Date in seconds.  Similarity scores are hundredths        *)
(* (0.85 is 85).                                                           *)
(* JavaScript runs one callback at a time: an async function runs          *)
(* synchronously up to its first await, and the continuation of an await   *)
(* on an already settled promise is a microtask, which runs before any     *)
(* timer or network callback.                                              *)
(***************************************************************************)
EXTENDS Integers, Sequences, FiniteSets, TLC

VARIABLES
    clock,              \* Date.now()
    requestTimestamps,  \* RateLimitedFetcher.requestTimestamps
    pc,                 \* per fetch() call: where the call stands
    attempt,            \* per fetch() call: the loop variable of fetch
    lastError,          \* per fetch() call: the local lastError
    wakeAt,             \* per fetch() call: when its pending setTimeout is due
    sleepMs,            \* per fetch() call: delay of its latest setTimeout
    response,           \* per fetch() call: the latest transport outcome
    result,             \* per fetch() call: what fetch returned or threw
    waited,             \* per fetch() call: latest waitForRateLimit suspended
    issued,             \* per fetch() call: number of requests sent
    outcomes,           \* per fetch() call: how the transport answered each
                        \* request so far: "ok", "fail" or "limited" (history)
    issuedLog,          \* every timestamp ever pushed, in order (history)
    calls,              \* number of fetch() calls made so far
    captures,           \* analyzedCaptures
    similarityThreshold,\* WaybackScraper.similarityThreshold
    idx,                \* loop variable i of the backward scan
    similarSince,
    previousSimilarity,
    previousDate,
    significantChanges,
    scanPc,
    dateInput,          \* the calendar day and time of day a provider entry stands for
    dateNum,            \* the provider's numeric MMDD code of a calendar item
    parsedDate,         \* what parseCalendarDate returned
    identifier,         \* what formatIdentifier returned (a string of digits)
    timeCode,           \* the provider's numeric HHMMSS code of a day item
    timestamp,          \* what createTimestamp returned
    datePc,
    today,              \* new Date(): the time of the analysis run
    averageSimilarity,  \* sum and number of the scores the average is taken over
    twoYearsAgo,        \* the local twoYearsAgo of shouldRecommendUpdate
    recommendUpdate,    \* what shouldRecommendUpdate returned
    recPc,
    yearRange,          \* analyzeWebsiteHistory: parameter
    maxYearlyCaptures,  \* analyzeWebsiteHistory: parameter
    currentContent,     \* analyzeWebsiteHistory: the content of the live page
    currentFailed,      \* fetchText of the live page threw (history)
    loopYear,           \* getAllCaptures: loop variable year
    yearItems,          \* getYearCaptures: data.items of the calendar response
    itemIdx,            \* getYearCaptures: position of the loop over data.items
    yearCaptures,       \* getYearCaptures: the Map captures, in insertion order
    allCaptures,        \* getAllCaptures: allCaptures; after the sort, the
                        \* captures of analyzeWebsiteHistory
    lastQuery,          \* the index query made by the latest step (history)
    queriedYears,       \* years whose calendar was queried, in order (history)
    failedUnits,        \* years and days whose index query failed (history)
    analysis,           \* what analyzeWebsiteHistory returned or threw
    runPc

fetchVars == <<clock, requestTimestamps, pc, attempt, lastError, wakeAt, sleepMs,
               response, result, waited, issued, outcomes, issuedLog, calls>>
scanVars == <<captures, similarityThreshold, idx, similarSince, previousSimilarity,
              previousDate, significantChanges, scanPc>>
dateVars == <<dateInput, dateNum, parsedDate, identifier, timeCode, timestamp, datePc>>
recVars == <<today, averageSimilarity, twoYearsAgo, recommendUpdate, recPc>>
runVars == <<yearRange, maxYearlyCaptures, currentContent, currentFailed, loopYear, yearItems,
             itemIdx, yearCaptures, allCaptures, lastQuery, queriedYears, failedUnits,
             analysis, runPc>>
otherVars == <<dateVars, recVars, runVars>>
vars == <<fetchVars, scanVars, otherVars>>

----------------------------------------------------------------------------
(* Bounds of the model *)

\* number of fetch() calls that can be in flight at once on one fetcher
NumCallers == 2
\* number of fetch() calls made on the fetcher in one run
MaxCalls == 3
\* the clock advances in steps of WindowMs \div TicksPerWindow
TicksPerWindow == 3
\* the clock stops advancing after this many steps
MaxTicks == 4
\* config.maxRequestsPerMinute of the modelled fetcher
maxRequestsPerMinute == 2
\* config.retryAttempts of the modelled fetcher
retryAttempts == 4
\* largest Retry-After header value (seconds) the transport sends
MaxRetryAfter == 2
\* longest snapshot list handed to the scan
MaxCaptures == 4

----------------------------------------------------------------------------
(* Program constants *)

WindowMs == 60000
retryDelay == 5000

Callers == 1..NumCallers
TickMs == WindowMs \div TicksPerWindow
MaxClock == MaxTicks * TickMs

NoError == [cause |-> "none", attempt |-> -1]
Synthesized == [cause |-> "exhausted", attempt |-> retryAttempts]
NoHeader == -1
NoResponse == [kind |-> "none", status |-> 0, retryAfter |-> NoHeader]
NoResult == [kind |-> "pending"]
NoTimer == -1

\* What the transport (the global fetch) can answer to one request: a network
\* failure (the promise rejects), or a response with a status and, for a 429,
\* possibly a Retry-After header holding a number of seconds.
Responses ==
    {[kind |-> "reject", status |-> 0, retryAfter |-> NoHeader]}
    \cup {[kind |-> "response", status |-> s, retryAfter |-> NoHeader] : s \in {200, 429, 500}}
    \cup {[kind |-> "response", status |-> 429, retryAfter |-> h] : h \in 0..MaxRetryAfter}

\* How the transport answered, in the words of the retry contract: a success,
\* a rate-limited response, or a generic failure (a rejection or any other
\* status).
TransportKind(r) ==
    IF r.kind = "reject" THEN "fail"
    ELSE IF r.status = 429 THEN "limited"
    ELSE IF r.status \in 200..299 THEN "ok"
    ELSE "fail"

----------------------------------------------------------------------------
(* RateLimitedFetcher *)

\* the filter keeping a timestamp that is exactly one minute old
PurgeInclusive(ts, t) == SelectSeq(ts, LAMBDA x : x >= t - WindowMs)

\* waitForRateLimit: the filter that keeps timestamps newer than one minute
Purge(ts, t) == SelectSeq(ts, LAMBDA x : x > t - WindowMs)

\* waitForRateLimit: the capacity test
AtLimit(ts) == Len(ts) >= maxRequestsPerMinute

\* waitForRateLimit: waitTime; requestTimestamps[0] of an empty array is
\* undefined, waitTime is then NaN and NaN > 0 is false: no wait
WaitTime(ts, t) == IF Len(ts) = 0 THEN 0 ELSE WindowMs - (t - ts[1])

\* calculateBackoff growing linearly instead of doubling
calculateBackoffLinear(a) == retryDelay * (a + 1)

\* calculateBackoff
calculateBackoff(a) == retryDelay * (2 ^ a)

\* handleRateLimitResponse taking the header's seconds for milliseconds
RateLimitWaitNoScale(r) == IF r.retryAfter # NoHeader THEN r.retryAfter ELSE retryDelay

\* handleRateLimitResponse: waitTime. A header value "0" is a non-empty
\* string, hence truthy: the wait is then 0 ms.
RateLimitWait(r) == IF r.retryAfter # NoHeader THEN r.retryAfter * 1000 ELSE retryDelay

\* fetch: the loop condition
LoopContinues(a) == a < retryAttempts

\* response.ok without its upper bound: a 500 passes
IsOkAnyStatus(r) == r.status >= 200

\* response.ok taken for "status above 200"
IsOkAbove200(r) == r.status > 200 /\ r.status <= 299

\* fetch: response.ok
IsOk(r) == r.status >= 200 /\ r.status <= 299

\* fetch: response.status === 429
IsRateLimited(r) == r.status = 429

\* fetch: the test guarding the backoff sleep in the catch block
ShouldBackoff(a) == a < retryAttempts - 1

\* fetch throwing the generic error whatever it caught
ThrownErrorGeneric(err) == Synthesized

\* fetch: the error thrown after the loop
ThrownError(err) == IF err # NoError THEN err ELSE Synthesized

\* fetch: the response handed to the caller by `return response`
ReturnedResponse(p, a) == [kind |-> "response", caller |-> p, attempt |-> a]

\* A microtask is pending: some call passed waitForRateLimit and its
\* continuation (the push) has not run yet. Timers and network callbacks
\* wait for it.
MicrotaskPending == \E p \in Callers : pc[p] = "admitted"

\* The head of fetch's for loop, reached with loop variable a and lastError
\* err: either the loop ends and fetch throws, or the synchronous part of
\* waitForRateLimit runs (purge, capacity test, possibly arm a timer). The
\* previous iteration's `response` is out of scope and its timer is gone.
EnterAttempt(p, a, err, res) ==
    LET ts == Purge(requestTimestamps, clock) IN
    /\ attempt' = [attempt EXCEPT ![p] = a]
    /\ lastError' = [lastError EXCEPT ![p] = err]
    /\ response' = [response EXCEPT ![p] = NoResponse]
    /\ IF LoopContinues(a)
       THEN /\ requestTimestamps' = ts
            /\ result' = res
            /\ IF AtLimit(ts) /\ WaitTime(ts, clock) > 0
               THEN /\ pc' = [pc EXCEPT ![p] = "rlwait"]
                    /\ wakeAt' = [wakeAt EXCEPT ![p] = clock + WaitTime(ts, clock)]
                    /\ sleepMs' = [sleepMs EXCEPT ![p] = WaitTime(ts, clock)]
                    /\ waited' = [waited EXCEPT ![p] = TRUE]
               ELSE /\ pc' = [pc EXCEPT ![p] = "admitted"]
                    /\ wakeAt' = [wakeAt EXCEPT ![p] = NoTimer]
                    /\ sleepMs' = [sleepMs EXCEPT ![p] = 0]
                    /\ waited' = [waited EXCEPT ![p] = FALSE]
       ELSE /\ pc' = [pc EXCEPT ![p] = "thrown"]
            /\ result' = [res EXCEPT ![p] = [kind |-> "error", error |-> ThrownError(err)]]
            /\ wakeAt' = [wakeAt EXCEPT ![p] = NoTimer]
            /\ sleepMs' = [sleepMs EXCEPT ![p] = 0]
            /\ UNCHANGED <<requestTimestamps, waited>>

\* The program calls fetch from its own synchronous code, never in between
\* a continuation of the fetcher and the microtask that continuation queued:
\* the calls still waiting to push were all made in the running block.
InCallerCode == \A q \in Callers : pc[q] = "admitted" => (attempt[q] = 0 /\ ~waited[q])

\* fetch(url) is called (a call that has settled leaves its slot to the next)
Call(p) ==
    /\ pc[p] \in {"idle", "returned", "thrown"}
    /\ calls < MaxCalls
    /\ InCallerCode
    /\ calls' = calls + 1
    /\ issued' = [issued EXCEPT ![p] = 0]
    /\ outcomes' = [outcomes EXCEPT ![p] = <<>>]
    /\ EnterAttempt(p, 0, NoError, [result EXCEPT ![p] = NoResult])
    /\ UNCHANGED <<clock, issuedLog, scanVars, otherVars>>

\* the timer of waitForRateLimit fires; nothing is checked again
WakeRateLimit(p) ==
    /\ pc[p] = "rlwait"
    /\ ~MicrotaskPending
    /\ clock >= wakeAt[p]
    /\ pc' = [pc EXCEPT ![p] = "admitted"]
    /\ wakeAt' = [wakeAt EXCEPT ![p] = NoTimer]
    /\ UNCHANGED <<clock, requestTimestamps, attempt, lastError, sleepMs,
                   response, result, waited, issued, outcomes, issuedLog, calls, scanVars, otherVars>>

\* fetch continues after `await this.waitForRateLimit()`: push and send
Push(p) ==
    /\ pc[p] = "admitted"
    /\ requestTimestamps' = Append(requestTimestamps, clock)
    /\ issuedLog' = Append(issuedLog, clock)
    /\ issued' = [issued EXCEPT ![p] = @ + 1]
    /\ pc' = [pc EXCEPT ![p] = "inflight"]
    /\ UNCHANGED <<clock, attempt, lastError, wakeAt, sleepMs, response, result,
                   waited, outcomes, calls, scanVars, otherVars>>

\* the catch block of fetch, entered with a new error
Catch(p, r) ==
    LET err == [cause |-> "transport", attempt |-> attempt[p]] IN
    /\ IF ShouldBackoff(attempt[p])
       THEN /\ lastError' = [lastError EXCEPT ![p] = err]
            /\ response' = [response EXCEPT ![p] = r]
            /\ pc' = [pc EXCEPT ![p] = "backoff"]
            /\ sleepMs' = [sleepMs EXCEPT ![p] = calculateBackoff(attempt[p])]
            /\ wakeAt' = [wakeAt EXCEPT ![p] = clock + calculateBackoff(attempt[p])]
            /\ UNCHANGED <<requestTimestamps, attempt, result, waited>>
       ELSE EnterAttempt(p, attempt[p] + 1, err, result)

\* the transport settles the request of call p with outcome r
Respond(p, r) ==
    /\ pc[p] = "inflight"
    /\ ~MicrotaskPending
    /\ IF r.kind = "reject"
       THEN Catch(p, r)
       ELSE IF IsRateLimited(r)
       THEN /\ pc' = [pc EXCEPT ![p] = "sleep429"]
            /\ response' = [response EXCEPT ![p] = r]
            /\ sleepMs' = [sleepMs EXCEPT ![p] = RateLimitWait(r)]
            /\ wakeAt' = [wakeAt EXCEPT ![p] = clock + RateLimitWait(r)]
            /\ UNCHANGED <<requestTimestamps, attempt, lastError, result, waited>>
       ELSE IF ~IsOk(r)
       THEN Catch(p, r)
       ELSE /\ pc' = [pc EXCEPT ![p] = "returned"]
            /\ response' = [response EXCEPT ![p] = r]
            /\ result' = [result EXCEPT ![p] = ReturnedResponse(p, attempt[p])]
            /\ UNCHANGED <<requestTimestamps, attempt, lastError, wakeAt, sleepMs, waited>>
    /\ outcomes' = [outcomes EXCEPT ![p] = Append(@, TransportKind(r))]
    /\ UNCHANGED <<clock, issued, issuedLog, calls, scanVars, otherVars>>

\* the timer of handleRateLimitResponse fires: `continue`
WakeRateLimited(p) ==
    /\ pc[p] = "sleep429"
    /\ ~MicrotaskPending
    /\ clock >= wakeAt[p]
    /\ EnterAttempt(p, attempt[p] + 1, lastError[p], result)
    /\ UNCHANGED <<clock, issued, outcomes, issuedLog, calls, scanVars, otherVars>>

\* the backoff timer of the catch block fires: next iteration
WakeBackoff(p) ==
    /\ pc[p] = "backoff"
    /\ ~MicrotaskPending
    /\ clock >= wakeAt[p]
    /\ EnterAttempt(p, attempt[p] + 1, lastError[p], result)
    /\ UNCHANGED <<clock, issued, outcomes, issuedLog, calls, scanVars, otherVars>>

\* time passes
Tick ==
    /\ ~MicrotaskPending
    /\ clock < MaxClock
    /\ clock' = clock + TickMs
    /\ UNCHANGED <<requestTimestamps, pc, attempt, lastError, wakeAt, sleepMs,
                   response, result, waited, issued, outcomes, issuedLog, calls, scanVars, otherVars>>

\* the fetcher before its first call
FetchIdle ==
    /\ clock = 0
    /\ requestTimestamps = <<>>
    /\ pc = [p \in Callers |-> "idle"]
    /\ attempt = [p \in Callers |-> 0]
    /\ lastError = [p \in Callers |-> NoError]
    /\ wakeAt = [p \in Callers |-> NoTimer]
    /\ sleepMs = [p \in Callers |-> 0]
    /\ response = [p \in Callers |-> NoResponse]
    /\ result = [p \in Callers |-> NoResult]
    /\ waited = [p \in Callers |-> FALSE]
    /\ issued = [p \in Callers |-> 0]
    /\ outcomes = [p \in Callers |-> <<>>]
    /\ issuedLog = <<>>
    /\ calls = 0

\* no backward scan has started
ScanIdle ==
    /\ captures = <<>>
    /\ similarityThreshold = 0
    /\ idx = 0
    /\ similarSince = 0
    /\ previousSimilarity = 0
    /\ previousDate = 0
    /\ significantChanges = <<>>
    /\ scanPc = "idle"

\* no date conversion has started
DateIdle ==
    /\ dateInput = [year |-> 0, month |-> 0, day |-> 0, hours |-> 0, minutes |-> 0, seconds |-> 0]
    /\ dateNum = 0
    /\ parsedDate = [month |-> 0, day |-> 0]
    /\ identifier = <<>>
    /\ timeCode = 0
    /\ timestamp = 0
    /\ datePc = "idle"

\* shouldRecommendUpdate has not been called
RecIdle ==
    /\ today = 0
    /\ averageSimilarity = [sum |-> 0, count |-> 0]
    /\ twoYearsAgo = 0
    /\ recommendUpdate = FALSE
    /\ recPc = "idle"

\* analyzeWebsiteHistory has not been called
RunIdle ==
    /\ yearRange = 0
    /\ maxYearlyCaptures = 0
    /\ currentContent = ""
    /\ currentFailed = FALSE
    /\ loopYear = 0
    /\ yearItems = <<>>
    /\ itemIdx = 0
    /\ yearCaptures = <<>>
    /\ allCaptures = <<>>
    /\ lastQuery = [kind |-> "none"]
    /\ queriedYears = <<>>
    /\ failedUnits = {}
    /\ analysis = [kind |-> "none"]
    /\ runPc = "idle"

OtherIdle == DateIdle /\ RecIdle /\ RunIdle

InitFetch ==
    /\ OtherIdle
    /\ clock = 0
    /\ requestTimestamps = <<>>
    /\ pc = [p \in Callers |-> "idle"]
    /\ attempt = [p \in Callers |-> 0]
    /\ lastError = [p \in Callers |-> NoError]
    /\ wakeAt = [p \in Callers |-> NoTimer]
    /\ sleepMs = [p \in Callers |-> 0]
    /\ response = [p \in Callers |-> NoResponse]
    /\ result = [p \in Callers |-> NoResult]
    /\ waited = [p \in Callers |-> FALSE]
    /\ issued = [p \in Callers |-> 0]
    /\ outcomes = [p \in Callers |-> <<>>]
    /\ issuedLog = <<>>
    /\ calls = 0
    /\ captures = <<>>
    /\ similarityThreshold = 0
    /\ idx = 0
    /\ similarSince = 0
    /\ previousSimilarity = 0
    /\ previousDate = 0
    /\ significantChanges = <<>>
    /\ scanPc = "idle"

NextFetch ==
    \/ \E p \in Callers : Call(p)
    \/ \E p \in Callers : WakeRateLimit(p)
    \/ \E p \in Callers : Push(p)
    \/ \E p \in Callers : \E r \in Responses : Respond(p, r)
    \/ \E p \in Callers : WakeRateLimited(p)
    \/ \E p \in Callers : WakeBackoff(p)
    \/ Tick

SpecFetch == InitFetch /\ [][NextFetch]_vars

\* The repository's own use of the fetcher: one call at a time, each awaited
\* before the next is made.
OneCaller == CHOOSE p \in Callers : \A q \in Callers : p <= q

NextRetry ==
    \/ Call(OneCaller)
    \/ WakeRateLimit(OneCaller)
    \/ Push(OneCaller)
    \/ \E r \in Responses : Respond(OneCaller, r)
    \/ WakeRateLimited(OneCaller)
    \/ WakeBackoff(OneCaller)
    \/ Tick

SpecRetry == InitFetch /\ [][NextRetry]_vars

----------------------------------------------------------------------------
(* Claims about RateLimitedFetcher *)

Last(q) == q[Len(q)]
CountOf(q, k) == Cardinality({i \in 1..Len(q) : q[i] = k})
\* the 0-based attempt index of the latest generic failure (-1: none)
LastFailed(q) ==
    IF CountOf(q, "fail") = 0 THEN -1
    ELSE (CHOOSE i \in 1..Len(q) : q[i] = "fail" /\ \A j \in (i + 1)..Len(q) : q[j] # "fail") - 1
\* the recorded issuances in the 60000 ms window that ends at time t
InWindow(t) == {j \in 1..Len(issuedLog) : issuedLog[j] > t - WindowMs /\ issuedLog[j] <= t}

\* C1: in the timeline of recorded issuance timestamps, no trailing 60000 ms
\* window (the most populated ones end at a recorded issuance) ever holds more
\* than maxRequestsPerMinute issuances.
C1_WindowNeverExceeded ==
    \A i \in 1..Len(issuedLog) :
        Cardinality(InWindow(issuedLog[i])) <= maxRequestsPerMinute

\* C2: when exactly one slot remains in the window, two calls never both stand
\* between a passed capacity check (passed without waiting) and their push:
\* check and push are one atomic unit.
C2_LastSlotGivenOnce ==
    \A p, q \in Callers :
        (p # q /\ pc[p] = "admitted" /\ pc[q] = "admitted" /\ ~waited[p] /\ ~waited[q])
            => Len(Purge(requestTimestamps, clock)) # maxRequestsPerMinute - 1

\* C3: a transport that answers the first k requests of a call (k below
\* retryAttempts) with a generic failure and the next with a success makes
\* fetch return, the returned response is the one of that last request, and
\* k + 1 requests were sent.
C3_SucceedsAfterFailures ==
    \A p \in Callers : \A k \in 0..(retryAttempts - 1) :
        (/\ Len(outcomes[p]) = k + 1
         /\ Last(outcomes[p]) = "ok"
         /\ CountOf(outcomes[p], "fail") = k)
            => /\ pc[p] = "returned"
               /\ result[p] = [kind |-> "response", caller |-> p, attempt |-> k]
               /\ issued[p] = k + 1

C3_Witness ==
    \E p \in Callers :
        /\ outcomes[p] = <<"fail", "fail", "ok">>
        /\ pc[p] = "returned"

\* C4: once retryAttempts requests of a call were all answered without a
\* success, fetch never returns: it sent exactly retryAttempts requests and
\* (after the sleep of a final rate-limited answer) throws the latest failure
\* it caught, or a synthesized error when it caught none.
C4_ExhaustedThrows ==
    \A p \in Callers :
        (Len(outcomes[p]) >= retryAttempts /\ CountOf(outcomes[p], "ok") = 0)
            => /\ Len(outcomes[p]) = retryAttempts
               /\ issued[p] = retryAttempts
               /\ pc[p] \in {"thrown", "sleep429"}
               /\ pc[p] = "sleep429" => Last(outcomes[p]) = "limited"
               /\ pc[p] = "thrown" =>
                    result[p] = [kind |-> "error",
                                 error |-> IF CountOf(outcomes[p], "fail") = 0
                                           THEN [cause |-> "exhausted", attempt |-> retryAttempts]
                                           ELSE [cause |-> "transport",
                                                 attempt |-> LastFailed(outcomes[p])]]

C4_Witness ==
    \E p \in Callers :
        /\ pc[p] = "thrown"
        /\ Len(outcomes[p]) = retryAttempts
        /\ CountOf(outcomes[p], "fail") > 0
        /\ Last(outcomes[p]) = "limited"

\* C5: a call sends at most retryAttempts requests, sends none after a request
\* that was answered with a success, and what it returns is always a success
\* response: the answer to its latest request.
C5_NoRetryPastSuccessOrBudget ==
    \A p \in Callers :
        /\ issued[p] <= retryAttempts
        /\ CountOf(outcomes[p], "ok") > 0
             => /\ Last(outcomes[p]) = "ok"
                /\ CountOf(outcomes[p], "ok") = 1
                /\ issued[p] = Len(outcomes[p])
                /\ pc[p] = "returned"
        /\ pc[p] = "returned"
             => /\ Len(outcomes[p]) > 0
                /\ Last(outcomes[p]) = "ok"
                /\ response[p].status \in 200..299
                /\ result[p].kind = "response"
                /\ result[p].attempt = Len(outcomes[p]) - 1

C5_Witness ==
    \E p \in Callers :
        /\ pc[p] = "returned"
        /\ outcomes[p] = <<"limited", "fail", "limited", "ok">>
        /\ issued[p] = retryAttempts

\* a step in which the transport answers the pending request of call p with k
Answered(p, k) ==
    /\ Len(outcomes'[p]) = Len(outcomes[p]) + 1
    /\ Last(outcomes'[p]) = k

\* C6: a generic failure on attempt a with attempts remaining arms a sleep of
\* exactly retryDelay * 2^a (5000 * 1, 2, 4 for a = 0, 1, 2) and the next
\* attempt starts only when it is over; a failure on the final attempt arms no
\* sleep: fetch throws in the same step.
C6_BackoffDoubles ==
    [][\A p \in Callers :
         /\ Answered(p, "fail") =>
              IF attempt[p] < retryAttempts - 1
              THEN /\ pc'[p] = "backoff"
                   /\ attempt'[p] = attempt[p]
                   /\ sleepMs'[p] = retryDelay * (2 ^ attempt[p])
                   /\ wakeAt'[p] = clock + retryDelay * (2 ^ attempt[p])
                   /\ attempt[p] = 2 => sleepMs'[p] = 4 * retryDelay
              ELSE /\ pc'[p] = "thrown"
                   /\ wakeAt'[p] = NoTimer
         /\ (pc[p] = "backoff" /\ pc'[p] # "backoff") =>
              /\ clock >= wakeAt[p]
              /\ attempt'[p] = attempt[p] + 1
      ]_vars

C6_Witness ==
    \E p \in Callers :
        /\ pc[p] = "thrown"
        /\ outcomes[p] = [i \in 1..retryAttempts |-> "fail"]
        /\ retryAttempts > 3

\* C7: a rate-limited (429) answer arms a sleep of the Retry-After seconds
\* times 1000 when the header is there, of retryDelay otherwise (on attempt 1
\* and later that is not the exponential retryDelay * 2^a), and leaves
\* lastError alone; when that sleep is over the loop goes straight on with the
\* next attempt index, with no backoff sleep in between.
C7_RateLimitedSleep ==
    [][\A p \in Callers :
         /\ Answered(p, "limited") =>
              /\ pc'[p] = "sleep429"
              /\ sleepMs'[p] = (IF response'[p].retryAfter # NoHeader
                                THEN response'[p].retryAfter * 1000
                                ELSE retryDelay)
              /\ (response'[p].retryAfter = NoHeader /\ attempt[p] >= 1)
                    => sleepMs'[p] # retryDelay * (2 ^ attempt[p])
              /\ wakeAt'[p] = clock + sleepMs'[p]
              /\ lastError'[p] = lastError[p]
              /\ attempt'[p] = attempt[p]
         /\ (pc[p] = "sleep429" /\ pc'[p] # "sleep429") =>
              /\ clock >= wakeAt[p]
              /\ attempt'[p] = attempt[p] + 1
              /\ lastError'[p] = lastError[p]
              /\ pc'[p] \in {"admitted", "rlwait", "thrown"}
      ]_vars

C7_Witness ==
    \E p \in Callers :
        /\ pc[p] = "admitted"
        /\ attempt[p] = 3
        /\ outcomes[p] = <<"fail", "limited", "limited">>
        /\ lastError[p] = [cause |-> "transport", attempt |-> 0]

\* a step in which call p stops waiting for the rate limit and pushes
PushAfterWait(p) == pc[p] = "admitted" /\ waited[p] /\ pc'[p] = "inflight"

\* C18: a call that found the window full and suspended records its timestamp
\* only in a step where the purged window holds fewer than
\* maxRequestsPerMinute entries (it checks again after waking).
C18_RecheckAfterWake ==
    [][\A p \in Callers :
         PushAfterWait(p) =>
            Len(Purge(requestTimestamps, clock)) < maxRequestsPerMinute
      ]_vars

\* a step in which call p runs the admission check of waitForRateLimit
AdmissionCheck(p) ==
    /\ pc[p] \in {"idle", "returned", "thrown", "inflight", "sleep429", "backoff"}
    /\ pc'[p] \in {"admitted", "rlwait"}

\* the timestamps recorded within the last 60000 ms, by position
Fresh == {i \in 1..Len(requestTimestamps) : requestTimestamps[i] > clock - WindowMs}

\* C20: every admission check first drops the timestamps that are 60000 ms old
\* or older, decides on the count of the remaining ones alone, and when it
\* suspends it waits for the oldest remaining timestamp to leave the window.
C20_PurgeBeforeCheck ==
    [][\A p \in Callers :
         AdmissionCheck(p) =>
            /\ Len(requestTimestamps') = Cardinality(Fresh)
            /\ \A i \in 1..Len(requestTimestamps') :
                   requestTimestamps'[i] > clock - WindowMs
            /\ pc'[p] = "rlwait" <=> Cardinality(Fresh) >= maxRequestsPerMinute
            /\ pc'[p] = "rlwait" =>
                   /\ \A i \in Fresh : wakeAt'[p] - WindowMs <= requestTimestamps[i]
                   /\ \E i \in Fresh : wakeAt'[p] - WindowMs = requestTimestamps[i]
                   /\ sleepMs'[p] = wakeAt'[p] - clock
      ]_vars

C20_Witness ==
    \E p \in Callers :
        /\ pc[p] = "rlwait"
        /\ Len(issuedLog) > Len(requestTimestamps)
        /\ wakeAt[p] = requestTimestamps[1] + WindowMs
        /\ requestTimestamps[1] > 0

----------------------------------------------------------------------------
(* WaybackScraper.analyzeWebsiteHistory: the backward scan *)

DropThreshold == 15
InitialSimilarity == 100
NoDate == -1

\* similarity scores (hundredths) the similarity oracle hands back
ScoreValues == {0, 60, 78, 85, 90, 95}
\* configured similarity thresholds (hundredths)
Thresholds == {0, 85, 90}
\* capture instants; the scan runs later than all of them
TimeValues == 1..MaxCaptures
scanNow == MaxCaptures + 1

RECURSIVE SortedSeq(_)
SortedSeq(S) ==
    IF S = {} THEN <<>>
    ELSE LET m == CHOOSE x \in S : \A y \in S : x <= y
         IN <<m>> \o SortedSeq(S \ {m})

\* `if (capture.similarity)`: 0 is falsy
Truthy(sim) == sim # 0

\* the 15% change test taken on the absolute difference
SignificantDropAbs(prev, sim) == prev - sim > DropThreshold \/ sim - prev > DropThreshold

\* the 15% change test
SignificantDrop(prev, sim) == prev - sim > DropThreshold

\* the threshold test of "similar since"
MeetsThreshold(sim, th) == sim >= th

\* the scan starts: the locals declared before the loop
InitScan ==
    /\ OtherIdle
    /\ clock = 0
    /\ requestTimestamps = <<>>
    /\ pc = [p \in Callers |-> "idle"]
    /\ attempt = [p \in Callers |-> 0]
    /\ lastError = [p \in Callers |-> NoError]
    /\ wakeAt = [p \in Callers |-> NoTimer]
    /\ sleepMs = [p \in Callers |-> 0]
    /\ response = [p \in Callers |-> NoResponse]
    /\ result = [p \in Callers |-> NoResult]
    /\ waited = [p \in Callers |-> FALSE]
    /\ issued = [p \in Callers |-> 0]
    /\ outcomes = [p \in Callers |-> <<>>]
    /\ issuedLog = <<>>
    /\ calls = 0
    /\ \E T \in SUBSET TimeValues : \E sc \in [1..Cardinality(T) -> ScoreValues] :
          captures = [i \in 1..Cardinality(T) |->
                         [timestamp |-> SortedSeq(T)[i], similarity |-> sc[i]]]
    /\ similarityThreshold \in Thresholds
    /\ idx = Len(captures)
    /\ similarSince = NoDate
    /\ previousSimilarity = InitialSimilarity
    /\ previousDate = scanNow
    /\ significantChanges = <<>>
    /\ scanPc = "scan"

\* one iteration of the loop `for (i = length - 1; i >= 0; i--)`
ScanStep ==
    LET capture == captures[idx] IN
    /\ scanPc = "scan"
    /\ idx >= 1
    /\ idx' = idx - 1
    /\ IF Truthy(capture.similarity)
       THEN /\ significantChanges' =
                  IF SignificantDrop(previousSimilarity, capture.similarity)
                  THEN Append(significantChanges,
                              [date |-> capture.timestamp,
                               otherDate |-> previousDate,
                               similarityDrop |-> previousSimilarity - capture.similarity])
                  ELSE significantChanges
            /\ similarSince' =
                  IF MeetsThreshold(capture.similarity, similarityThreshold)
                  THEN capture.timestamp
                  ELSE similarSince
            /\ previousSimilarity' = capture.similarity
            /\ previousDate' = capture.timestamp
       ELSE UNCHANGED <<significantChanges, similarSince, previousSimilarity, previousDate>>
    /\ UNCHANGED <<captures, similarityThreshold, scanPc, fetchVars, otherVars>>

\* the loop ends
ScanEnd ==
    /\ scanPc = "scan"
    /\ idx = 0
    /\ scanPc' = "done"
    /\ UNCHANGED <<captures, similarityThreshold, idx, similarSince, previousSimilarity,
                   previousDate, significantChanges, fetchVars, otherVars>>

NextScan == ScanStep \/ ScanEnd

SpecScan == InitScan /\ [][NextScan]_vars

----------------------------------------------------------------------------
(* Claims about the backward scan *)

Scores == [i \in 1..Len(captures) |-> captures[i].similarity]
Qualifying == {i \in 1..Len(captures) : captures[i].similarity >= similarityThreshold}
Oldest(I) == CHOOSE i \in I : \A j \in I : captures[i].timestamp <= captures[j].timestamp

\* C8: when the scan is over, similarSince is the timestamp of the oldest
\* snapshot whose score is at least the threshold, and none exactly when no
\* snapshot's score is.
C8_OldestQualifying ==
    scanPc = "done" =>
        similarSince = (IF Qualifying = {} THEN NoDate
                        ELSE captures[Oldest(Qualifying)].timestamp)

\* C9 as claimed: scores 0.95, 0.78, 0.60, 0.90 (ascending by time) under
\* threshold 0.85 give one event, between t3 and t2 with drop 0.18, and
\* similarSince = t1.
C9_EventBetweenT3AndT2 ==
    (scanPc = "done" /\ Scores = <<95, 78, 60, 90>> /\ similarityThreshold = 85)
        => /\ significantChanges = <<[date |-> captures[3].timestamp,
                                      otherDate |-> captures[2].timestamp,
                                      similarityDrop |-> 18]>>
           /\ similarSince = captures[1].timestamp

\* C9 amended: the same input gives one event, dated t3 against the newer t4
\* with drop 0.30 (0.90 - 0.60), and similarSince = t1.
C9_EventBetweenT3AndT4 ==
    (scanPc = "done" /\ Scores = <<95, 78, 60, 90>> /\ similarityThreshold = 85)
        => /\ significantChanges = <<[date |-> captures[3].timestamp,
                                      otherDate |-> captures[4].timestamp,
                                      similarityDrop |-> 30]>>
           /\ similarSince = captures[1].timestamp

C9_Witness ==
    scanPc = "done" /\ Scores = <<95, 78, 60, 90>> /\ similarityThreshold = 85

\* the events the scan owes according to C10, newest snapshot first: one per
\* snapshot whose score lies more than 0.15 below the score of the next-newer
\* snapshot (1.0 at `now` for the newest)
RECURSIVE OwedEvents(_)
OwedEvents(i) ==
    IF i = 0 THEN <<>>
    ELSE LET prevSim == IF i = Len(captures) THEN 100 ELSE captures[i + 1].similarity
             prevAt == IF i = Len(captures) THEN scanNow ELSE captures[i + 1].timestamp
             here == IF prevSim - captures[i].similarity > 15
                     THEN <<[date |-> captures[i].timestamp,
                             otherDate |-> prevAt,
                             similarityDrop |-> prevSim - captures[i].similarity]>>
                     ELSE <<>>
         IN here \o OwedEvents(i - 1)

\* C10: the scan records an event for a scored snapshot (t, s) exactly when
\* previousSimilarity - s > 0.15, with the next-newer scored snapshot (or
\* 1.0 / now) as the previous one.
C10_EventIffDrop ==
    scanPc = "done" => significantChanges = OwedEvents(Len(captures))

\* C19: every snapshot takes part in the scan, one whose score is exactly 0
\* included: each iteration makes the snapshot it visits the previous one
\* (previousSimilarity, previousTimestamp) of the next-older snapshot.
C19_EverySnapshotTakesPart ==
    [][(scanPc = "scan" /\ idx >= 1 /\ idx' = idx - 1) =>
          /\ previousSimilarity' = captures[idx].similarity
          /\ previousDate' = captures[idx].timestamp
      ]_vars

----------------------------------------------------------------------------
(* src/src/utils/date.ts.  A string of digits is a sequence of 0..9.  A Date
   is its getTime() in seconds; the local time zone is taken to be UTC. *)

\* parseInt of a string without a digit
NaN == -1

SecondsPerDay == 86400

RECURSIVE ToDigits(_)
\* Number.prototype.toString of a non-negative integer
ToDigits(n) == IF n < 10 THEN <<n>> ELSE Append(ToDigits(n \div 10), n % 10)

\* String.prototype.padStart(n, '0')
padStart(str, n) ==
    IF Len(str) >= n THEN str
    ELSE [i \in 1..n |-> IF i <= n - Len(str) THEN 0 ELSE str[i - (n - Len(str))]]

\* String.prototype.slice(from, to) with 0 <= from
slice(str, from, to) ==
    SubSeq(str, from + 1, IF to < Len(str) THEN to ELSE Len(str))

RECURSIVE parseInt(_)
\* parseInt of a string of decimal digits
parseInt(str) ==
    IF str = <<>> THEN NaN
    ELSE IF Len(str) = 1 THEN str[1]
    ELSE parseInt(SubSeq(str, 1, Len(str) - 1)) * 10 + str[Len(str)]

\* parseCalendarDate without the padStart
parseCalendarDateNoPad(value) ==
    LET valueStr == ToDigits(value) IN
    [month |-> parseInt(slice(valueStr, 0, 2)),
     day |-> parseInt(slice(valueStr, 2, Len(valueStr)))]

parseCalendarDate(value) ==
    LET valueStr == padStart(ToDigits(value), 4) IN
    [month |-> parseInt(slice(valueStr, 0, 2)),
     day |-> parseInt(slice(valueStr, 2, Len(valueStr)))]

formatIdentifier(year, month, day) ==
    ToDigits(year) \o padStart(ToDigits(month), 2) \o padStart(ToDigits(day), 2)

IsLeapYear(y) == y % 4 = 0 /\ (y % 100 # 0 \/ y % 400 = 0)

\* number of days of month m (1..12) of year y
DaysInMonth(y, m) ==
    IF m = 2 THEN (IF IsLeapYear(y) THEN 29 ELSE 28)
    ELSE IF m \in {4, 6, 9, 11} THEN 30 ELSE 31

\* day number of 1 January of year y, counted from 1 January 1970
DayFromYear(y) ==
    365 * (y - 1970) + (y - 1969) \div 4 - (y - 1901) \div 100 + (y - 1601) \div 400

RECURSIVE DaysBeforeMonth(_, _)
DaysBeforeMonth(y, m) ==
    IF m = 1 THEN 0 ELSE DaysBeforeMonth(y, m - 1) + DaysInMonth(y, m - 1)

\* the day number of (year, month0 + 1, date): a date past the end of the
\* month runs over into the next month
MakeDay(year, month0, date) ==
    LET ym == year + month0 \div 12
        mn == month0 % 12
    IN  DayFromYear(ym) + DaysBeforeMonth(ym, mn + 1) + date - 1

\* new Date(year, month0, date, hours, minutes, seconds).getTime()
NewDate(year, month0, date, hours, minutes, seconds) ==
    MakeDay(year, month0, date) * SecondsPerDay + hours * 3600 + minutes * 60 + seconds

createTimestamp(date, time) ==
    LET timeStr == padStart(ToDigits(time), 6)
        hours == parseInt(slice(timeStr, 0, 2))
        minutes == parseInt(slice(timeStr, 2, 4))
        seconds == parseInt(slice(timeStr, 4, Len(timeStr)))
        part(k) == SelectSeq([i \in 1..Len(date) |-> <<i - 1, date[i]>>],
                             LAMBDA e : IF k = 0 THEN e[1] < 4
                                        ELSE IF k = 1 THEN e[1] >= 4 /\ e[1] < 6
                                        ELSE e[1] >= 6)
        str(k) == [i \in 1..Len(part(k)) |-> part(k)[i][2]]
        year == parseInt(str(0))
        month == parseInt(str(1))
        day == parseInt(str(2))
    IN  NewDate(year, month - 1, day, hours, minutes, seconds)

\* Date.prototype.getFullYear
getFullYear(t) ==
    LET d == t \div SecondsPerDay IN
    CHOOSE y \in (1970 + d \div 366)..(1970 + d \div 365) :
        DayFromYear(y) <= d /\ d < DayFromYear(y + 1)

\* Date.prototype.getMonth() + 1
getMonth1(t) ==
    LET y == getFullYear(t)
        dayInYear == t \div SecondsPerDay - DayFromYear(y)
    IN  CHOOSE m \in 1..12 :
            DaysBeforeMonth(y, m) <= dayInYear /\ dayInYear < DaysBeforeMonth(y, m) + DaysInMonth(y, m)

\* Date.prototype.getDate
getDate(t) ==
    LET y == getFullYear(t) IN
    t \div SecondsPerDay - DayFromYear(y) - DaysBeforeMonth(y, getMonth1(t)) + 1

\* seconds since midnight
TimeWithinDay(t) == t % SecondsPerDay

\* the years, and the times of day, of the provider entries that are converted
DateYears == {2023, 2024}
TimeCodes == {0, 5, 123, 10203, 120000, 235959}

\* a calendar item and a day item of the provider arrive
InitDate ==
    /\ FetchIdle
    /\ ScanIdle
    /\ RecIdle
    /\ RunIdle
    /\ \E y \in DateYears : \E m \in 1..12 : \E d \in 1..DaysInMonth(y, m) : \E tc \in TimeCodes :
          /\ dateInput = [year |-> y, month |-> m, day |-> d,
                          hours |-> tc \div 10000, minutes |-> (tc \div 100) % 100,
                          seconds |-> tc % 100]
          /\ dateNum = m * 100 + d
          /\ timeCode = tc
    /\ parsedDate = [month |-> 0, day |-> 0]
    /\ identifier = <<>>
    /\ timestamp = 0
    /\ datePc = "item"

\* getYearCaptures: `const { month, day } = parseCalendarDate(dateNum)`
ParseCalendarDate ==
    /\ datePc = "item"
    /\ parsedDate' = parseCalendarDate(dateNum)
    /\ datePc' = "parsed"
    /\ UNCHANGED <<dateInput, dateNum, identifier, timeCode, timestamp, fetchVars, scanVars, recVars, runVars>>

\* getYearCaptures: `const identifier = formatIdentifier(year, month, day)`
FormatIdentifier ==
    /\ datePc = "parsed"
    /\ identifier' = formatIdentifier(dateInput.year, parsedDate.month, parsedDate.day)
    /\ datePc' = "formatted"
    /\ UNCHANGED <<dateInput, dateNum, parsedDate, timeCode, timestamp, fetchVars, scanVars, recVars, runVars>>

\* getDayCaptures: `timestamp: createTimestamp(identifier, time)`
CreateTimestamp ==
    /\ datePc = "formatted"
    /\ timestamp' = createTimestamp(identifier, timeCode)
    /\ datePc' = "stamped"
    /\ UNCHANGED <<dateInput, dateNum, parsedDate, identifier, timeCode, fetchVars, scanVars, recVars, runVars>>

NextDate == ParseCalendarDate \/ FormatIdentifier \/ CreateTimestamp

SpecDate == InitDate /\ [][NextDate]_vars

\* C17: decoding the MMDD code of a valid (month, day) returns that month and
\* day, and the timestamp composed from the day identifier and the HHMMSS code
\* has the year, month, day, hour, minute and second it was built from.
C17_DateRoundTrip ==
    /\ datePc \in {"parsed", "formatted", "stamped"} =>
          parsedDate = [month |-> dateInput.month, day |-> dateInput.day]
    /\ datePc = "stamped" =>
          /\ getFullYear(timestamp) = dateInput.year
          /\ getMonth1(timestamp) = dateInput.month
          /\ getDate(timestamp) = dateInput.day
          /\ TimeWithinDay(timestamp) \div 3600 = dateInput.hours
          /\ (TimeWithinDay(timestamp) \div 60) % 60 = dateInput.minutes
          /\ TimeWithinDay(timestamp) % 60 = dateInput.seconds

C17_Witness ==
    /\ datePc = "stamped"
    /\ dateNum < 1000
    /\ timeCode < 100000
    /\ timeCode > 0

----------------------------------------------------------------------------
(* WaybackScraper.shouldRecommendUpdate.  An average is kept as the sum of the
   scores (hundredths) and their number. *)

\* the fixed level the average must exceed (0.85)
RecommendLevel == 85

\* similarSince is tried up to this many days before and after the day two
\* years before today
MaxDayOffset == 2

\* `averageSimilarity >= 0.85`
AboveRecommendLevelInclusive(avg) ==
    avg.count > 0 /\ avg.sum >= RecommendLevel * avg.count

\* `averageSimilarity > 0.85`; the average over no score is NaN, which exceeds nothing
AboveRecommendLevel(avg) ==
    avg.count > 0 /\ avg.sum > RecommendLevel * avg.count

\* Date.prototype.setFullYear(y)
setFullYear(t, y) ==
    MakeDay(y, getMonth1(t) - 1, getDate(t)) * SecondsPerDay + TimeWithinDay(t)

\* `!similarSince`: only null is falsy, a Date object never is
IsNull(since) == since = NoDate

shouldRecommendUpdate(since, avg, now) ==
    IF IsNull(since) THEN FALSE
    ELSE since < setFullYear(now, getFullYear(now) - 2) /\ AboveRecommendLevel(avg)

\* the times at which the analysis runs: an ordinary day, a leap day, the day
\* after it, and the first instant of a year
Todays == {NewDate(2026, 10, 5, 12, 0, 0), NewDate(2024, 1, 29, 12, 0, 0),
           NewDate(2024, 2, 1, 12, 0, 0), NewDate(2025, 0, 1, 0, 0, 0)}

AverageValues ==
    {[sum |-> s, count |-> 1] : s \in {0, 84, 85, 86, 90}}
        \cup {[sum |-> s, count |-> 2] : s \in {170, 171}}

\* shouldRecommendUpdate(similarSince, averageSimilarity) is called
InitRecommend ==
    /\ FetchIdle
    /\ DateIdle
    /\ RunIdle
    /\ captures = <<>>
    /\ idx = 0
    /\ previousSimilarity = 0
    /\ previousDate = 0
    /\ significantChanges = <<>>
    /\ scanPc = "idle"
    /\ similarityThreshold \in Thresholds
    /\ today \in Todays
    /\ similarSince \in {NoDate} \cup
          {NewDate(getFullYear(today) - 2, getMonth1(today) - 1, getDate(today) + k,
                   0, 0, TimeWithinDay(today)) : k \in (0 - MaxDayOffset)..MaxDayOffset}
    /\ averageSimilarity \in AverageValues
    /\ twoYearsAgo = 0
    /\ recommendUpdate = FALSE
    /\ recPc = "called"

\* `if (!similarSince) return false`
ReturnNoDate ==
    /\ recPc = "called"
    /\ IsNull(similarSince)
    /\ recommendUpdate' = FALSE
    /\ recPc' = "returned"
    /\ UNCHANGED <<today, averageSimilarity, twoYearsAgo, fetchVars, scanVars, dateVars, runVars>>

\* `twoYearsAgo = new Date(); twoYearsAgo.setFullYear(twoYearsAgo.getFullYear() - 2)`
SetTwoYearsAgo ==
    /\ recPc = "called"
    /\ ~IsNull(similarSince)
    /\ twoYearsAgo' = setFullYear(today, getFullYear(today) - 2)
    /\ recPc' = "compare"
    /\ UNCHANGED <<today, averageSimilarity, recommendUpdate, fetchVars, scanVars, dateVars, runVars>>

\* `return similarSince < twoYearsAgo && averageSimilarity > 0.85`
ReturnComparison ==
    /\ recPc = "compare"
    /\ recommendUpdate' = (similarSince < twoYearsAgo /\ AboveRecommendLevel(averageSimilarity))
    /\ recPc' = "returned"
    /\ UNCHANGED <<today, averageSimilarity, twoYearsAgo, fetchVars, scanVars, dateVars, runVars>>

NextRecommend == ReturnNoDate \/ SetTwoYearsAgo \/ ReturnComparison

SpecRecommend == InitRecommend /\ [][NextRecommend]_vars

\* the calendar fields of an instant, most significant first
Fields(t) == <<getFullYear(t), getMonth1(t), getDate(t), TimeWithinDay(t)>>

\* lexicographic order on calendar fields
FieldsBefore(a, b) ==
    \E i \in 1..4 : a[i] < b[i] /\ \A j \in 1..(i - 1) : a[j] = b[j]

\* instant t lies more than two calendar years before instant now
MoreThanTwoYearsBefore(t, now) ==
    FieldsBefore(<<getFullYear(t) + 2, getMonth1(t), getDate(t), TimeWithinDay(t)>>,
                 Fields(now))

\* C11: recommendUpdate is false without a similarSince; otherwise it is true
\* exactly when similarSince lies more than two calendar years before now and
\* the average exceeds 0.85, whatever the configured similarity threshold.
C11_RecommendUpdate ==
    recPc = "returned" =>
        (recommendUpdate <=>
            /\ similarSince # NoDate
            /\ MoreThanTwoYearsBefore(similarSince, today)
            /\ 100 * averageSimilarity.sum > 100 * RecommendLevel * averageSimilarity.count)

\* recommended one day past the two years, under a threshold other than 0.85
C11_Witness ==
    /\ recPc = "returned"
    /\ recommendUpdate
    /\ similarSince + SecondsPerDay = twoYearsAgo
    /\ averageSimilarity = [sum |-> 90, count |-> 1]
    /\ similarityThreshold # RecommendLevel

----------------------------------------------------------------------------
(* WaybackScraper.analyzeWebsiteHistory: the whole run.  A request through
   the rate limited fetcher is one step here: it returns, or it throws once
   its retry budget is spent.  A page content is "" (nothing), "page" (the
   content of the live page) or "old" (any other content). *)

\* largest number of entries of a calendar response
MaxDays == 2
YearRanges == {0, 1}
Caps == {0, 1, 2}

\* the time the run takes place
RunDay == NewDate(2026, 10, 5, 12, 0, 0)

\* WaybackScraper.similarityThreshold as the constructor sets it
DefaultThreshold == 85

\* entries [dateNum, status, count] of a calendar response: two days with
\* captures, a permanent redirect, a day without captures, a temporary redirect
CalendarItems ==
    {<<105, 200, 1>>, <<1020, 200, 1>>, <<105, 301, 1>>, <<1020, 200, 0>>, <<1020, 302, 1>>}

\* entries [time, status] of a day response
DayItems == {<<120000, st>> : st \in {200, 404}}

\* what fetchJson gives: the parsed body, or a thrown error
FailedResponse == [ok |-> FALSE, items |-> <<>>]
YearResponses ==
    {FailedResponse}
        \cup {[ok |-> TRUE, items |-> its] :
                its \in UNION {[1..n -> CalendarItems] : n \in 0..MaxDays}}
\* a day response holds no entry or one
DayResponses ==
    {FailedResponse}
        \cup {[ok |-> TRUE, items |-> its] : its \in {<<>>} \cup {<<it>> : it \in DayItems}}

\* what fetchContent gives, and the score the comparison library gives to two
\* different pages
Contents == {"", "page", "old"}
DiceScores == {60, 90}

\* getAllCaptures: startYear
startYear == getFullYear(today) - yearRange

\* getYearCaptures: `status === 301 || count === 0`
Skipped(item) == item[2] = 301 \/ item[3] = 0

\* getYearCaptures: the identifier of a calendar entry
IdentifierOf(y, item) ==
    formatIdentifier(y, parseCalendarDate(item[1]).month, parseCalendarDate(item[1]).day)

\* getDayCaptures in which a failed query yields a snapshot at midnight
getDayCapturesStale(ident, resp) ==
    IF ~resp.ok THEN <<[timestamp |-> createTimestamp(ident, 0)]>>
    ELSE LET kept == SelectSeq(resp.items, LAMBDA it : it[2] = 200)
         IN  [i \in 1..Len(kept) |-> [timestamp |-> createTimestamp(ident, kept[i][1])]]

\* getDayCaptures: the entries with status 200, or nothing when the query failed
getDayCaptures(ident, resp) ==
    IF ~resp.ok THEN <<>>
    ELSE LET kept == SelectSeq(resp.items, LAMBDA it : it[2] = 200)
         IN  [i \in 1..Len(kept) |-> [timestamp |-> createTimestamp(ident, kept[i][1])]]

\* Map.prototype.set: a key that is present keeps its place
MapSet(map, key, value) ==
    IF \E i \in 1..Len(map) : map[i].identifier = key
    THEN [i \in 1..Len(map) |->
             IF map[i].identifier = key THEN [map[i] EXCEPT !.snapshots = value] ELSE map[i]]
    ELSE Append(map, [identifier |-> key, snapshots |-> value])

RECURSIVE Flatten(_)
\* getAllCaptures: `for (captures of yearCaptures.values()) allCaptures.push(...captures)`
Flatten(map) == IF map = <<>> THEN <<>> ELSE Head(map).snapshots \o Flatten(Tail(map))

\* the list left as it was collected
NotSorted(seq) == seq

\* one step of a stable sort: c goes after the elements that are not greater
InsertByTimestamp(sorted, c) ==
    LET k == Cardinality({i \in 1..Len(sorted) : sorted[i].timestamp <= c.timestamp})
    IN  SubSeq(sorted, 1, k) \o <<c>> \o SubSeq(sorted, k + 1, Len(sorted))

RECURSIVE SortList(_)
SortList(seq) ==
    IF seq = <<>> THEN <<>>
    ELSE InsertByTimestamp(SortList(SubSeq(seq, 1, Len(seq) - 1)), seq[Len(seq)])

\* getAllCaptures: `allCaptures.sort((a, b) => a.timestamp - b.timestamp)`
SortByTimestamp(seq) == SortList(seq)

\* ContentAnalyzer.compareSites: compareTwoStrings gives 1 to equal strings, 0
\* when one of two different strings has fewer than two characters, and
\* otherwise the score of their common letter pairs
compareSites(current, historical, dice) ==
    IF current = historical THEN 100
    ELSE IF current = "" \/ historical = "" THEN 0
    ELSE dice

RECURSIVE SumSimilarity(_)
\* analyzeWebsiteHistory: `reduce((sum, capture) => sum + (capture.similarity || 0), 0)`
SumSimilarity(seq) ==
    IF seq = <<>> THEN 0 ELSE Head(seq).similarity + SumSimilarity(Tail(seq))

\* analyzeWebsiteHistory(yearRange, maxYearlyCaptures) is called
InitAnalyze ==
    /\ FetchIdle
    /\ DateIdle
    /\ captures = <<>>
    /\ similarityThreshold = DefaultThreshold
    /\ idx = 0
    /\ similarSince = 0
    /\ previousSimilarity = 0
    /\ previousDate = 0
    /\ significantChanges = <<>>
    /\ scanPc = "idle"
    /\ today = RunDay
    /\ averageSimilarity = [sum |-> 0, count |-> 0]
    /\ twoYearsAgo = 0
    /\ recommendUpdate = FALSE
    /\ recPc = "idle"
    /\ yearRange \in YearRanges
    /\ maxYearlyCaptures \in Caps
    /\ currentContent = ""
    /\ currentFailed = FALSE
    /\ loopYear = 0
    /\ yearItems = <<>>
    /\ itemIdx = 0
    /\ yearCaptures = <<>>
    /\ allCaptures = <<>>
    /\ lastQuery = [kind |-> "none"]
    /\ queriedYears = <<>>
    /\ failedUnits = {}
    /\ analysis = [kind |-> "none"]
    /\ runPc = "start"

\* `currentContent = await fetchContent(fetcher, url)`: fetchContent catches
\* the error of fetchText and returns ''; then getAllCaptures begins
FetchCurrent ==
    /\ runPc = "start"
    /\ \E failed \in BOOLEAN :
          /\ currentFailed' = failed
          /\ currentContent' = IF failed THEN "" ELSE "page"
    /\ loopYear' = getFullYear(today)
    /\ allCaptures' = <<>>
    /\ lastQuery' = [kind |-> "none"]
    /\ runPc' = "years"
    /\ UNCHANGED <<yearRange, maxYearlyCaptures, yearItems, itemIdx, yearCaptures,
                   queriedYears, failedUnits, analysis, fetchVars, scanVars, dateVars, recVars>>

\* getAllCaptures calls getYearCaptures(year): the calendar query.  When it
\* fails getYearCaptures rethrows, getAllCaptures catches and continues.
QueryYear ==
    /\ runPc = "years"
    /\ loopYear >= startYear
    /\ \E resp \in YearResponses :
          /\ lastQuery' = [kind |-> "year", unit |-> loopYear, ok |-> resp.ok]
          /\ IF resp.ok
             THEN /\ yearItems' = resp.items
                  /\ itemIdx' = 1
                  /\ yearCaptures' = <<>>
                  /\ runPc' = "days"
                  /\ UNCHANGED <<loopYear, failedUnits>>
             ELSE /\ loopYear' = loopYear - 1
                  /\ failedUnits' = failedUnits \cup {loopYear}
                  /\ UNCHANGED <<yearItems, itemIdx, yearCaptures, runPc>>
    /\ queriedYears' = Append(queriedYears, loopYear)
    /\ UNCHANGED <<yearRange, maxYearlyCaptures, currentContent, currentFailed, allCaptures,
                   analysis, fetchVars, scanVars, dateVars, recVars>>

\* getYearCaptures: one iteration of the loop over data.items
ExamineItem ==
    /\ runPc = "days"
    /\ itemIdx <= Len(yearItems)
    /\ LET item == yearItems[itemIdx]
           ident == IdentifierOf(loopYear, item)
       IN  IF Skipped(item)
           THEN /\ itemIdx' = itemIdx + 1
                /\ lastQuery' = [kind |-> "none"]
                /\ UNCHANGED <<yearCaptures, failedUnits>>
           ELSE \E resp \in DayResponses :
                   LET dayCaptures == getDayCaptures(ident, resp)
                       recorded == MapSet(yearCaptures, ident, dayCaptures)
                   IN  /\ lastQuery' = [kind |-> "day", unit |-> parseInt(ident), ok |-> resp.ok]
                       /\ failedUnits' =
                             IF resp.ok THEN failedUnits ELSE failedUnits \cup {parseInt(ident)}
                       /\ yearCaptures' = IF Len(dayCaptures) > 0 THEN recorded ELSE yearCaptures
                       /\ itemIdx' =
                             IF Len(dayCaptures) > 0 /\ Len(recorded) >= maxYearlyCaptures
                             THEN Len(yearItems) + 1
                             ELSE itemIdx + 1
    /\ UNCHANGED <<yearRange, maxYearlyCaptures, currentContent, currentFailed, loopYear,
                   yearItems, allCaptures, queriedYears, analysis, runPc,
                   fetchVars, scanVars, dateVars, recVars>>

\* getYearCaptures returns its Map; getAllCaptures pushes the snapshots of
\* every day and goes on to the year before (the locals of getYearCaptures
\* are gone)
EndYear ==
    /\ runPc = "days"
    /\ itemIdx > Len(yearItems)
    /\ allCaptures' = allCaptures \o Flatten(yearCaptures)
    /\ loopYear' = loopYear - 1
    /\ yearItems' = <<>>
    /\ itemIdx' = 0
    /\ yearCaptures' = <<>>
    /\ lastQuery' = [kind |-> "none"]
    /\ runPc' = "years"
    /\ UNCHANGED <<yearRange, maxYearlyCaptures, currentContent, currentFailed,
                   queriedYears, failedUnits, analysis,
                   fetchVars, scanVars, dateVars, recVars>>

\* getAllCaptures: the loop over the years ends, `return allCaptures.sort(...)`
SortCaptures ==
    /\ runPc = "years"
    /\ loopYear < startYear
    /\ allCaptures' = SortByTimestamp(allCaptures)
    /\ captures' = <<>>
    /\ lastQuery' = [kind |-> "none"]
    /\ runPc' = "fetching"
    /\ UNCHANGED <<yearRange, maxYearlyCaptures, currentContent, currentFailed, loopYear,
                   yearItems, itemIdx, yearCaptures, queriedYears, failedUnits, analysis,
                   fetchVars, dateVars, recVars, similarityThreshold, idx, similarSince,
                   previousSimilarity, previousDate, significantChanges, scanPc>>

\* analyzeWebsiteHistory: one iteration of `for (const capture of captures)`.
\* fetchContent returns '' when fetchText threw; the field failed records that
\* it did (history).
FetchSnapshot ==
    /\ runPc = "fetching"
    /\ Len(captures) < Len(allCaptures)
    /\ \E failed \in BOOLEAN : \E fetched \in Contents : \E dice \in DiceScores :
          LET content == IF failed THEN "" ELSE fetched IN
          captures' = Append(captures,
                             [timestamp |-> allCaptures[Len(captures) + 1].timestamp,
                              similarity |-> compareSites(currentContent, content, dice),
                              failed |-> failed])
    /\ UNCHANGED <<runVars, fetchVars, dateVars, recVars, similarityThreshold, idx,
                   similarSince, previousSimilarity, previousDate, significantChanges, scanPc>>

\* analyzeWebsiteHistory: the locals of the backward scan
StartScan ==
    /\ runPc = "fetching"
    /\ Len(captures) = Len(allCaptures)
    /\ significantChanges' = <<>>
    /\ similarSince' = NoDate
    /\ previousSimilarity' = InitialSimilarity
    /\ previousDate' = today
    /\ idx' = Len(captures)
    /\ scanPc' = "scan"
    /\ runPc' = "scanning"
    /\ UNCHANGED <<yearRange, maxYearlyCaptures, currentContent, currentFailed, loopYear,
                   yearItems, itemIdx, yearCaptures, allCaptures, lastQuery, queriedYears,
                   failedUnits, analysis, fetchVars, dateVars, recVars, captures,
                   similarityThreshold>>

\* analyzeWebsiteHistory after the scan: `captures[0].timestamp` throws a
\* TypeError when captures is empty; otherwise the result is returned
Finish ==
    /\ runPc = "scanning"
    /\ scanPc = "done"
    /\ analysis' =
          IF Len(allCaptures) = 0
          THEN [kind |-> "error", error |-> "TypeError"]
          ELSE LET avg == [sum |-> SumSimilarity(captures), count |-> Len(captures)]
               IN  [kind |-> "result",
                    firstCapture |-> allCaptures[1].timestamp,
                    lastCapture |-> allCaptures[Len(allCaptures)].timestamp,
                    totalCaptures |-> Len(allCaptures),
                    similarSince |-> similarSince,
                    similarityScore |-> avg,
                    significantChanges |-> significantChanges,
                    recommendUpdate |-> shouldRecommendUpdate(similarSince, avg, today)]
    /\ runPc' = "done"
    /\ UNCHANGED <<yearRange, maxYearlyCaptures, currentContent, currentFailed, loopYear,
                   yearItems, itemIdx, yearCaptures, allCaptures, lastQuery, queriedYears,
                   failedUnits, fetchVars, scanVars, dateVars, recVars>>

NextAnalyze ==
    \/ FetchCurrent
    \/ QueryYear
    \/ ExamineItem
    \/ EndYear
    \/ SortCaptures
    \/ FetchSnapshot
    \/ StartScan
    \/ ScanStep
    \/ ScanEnd
    \/ Finish

SpecAnalyze == InitAnalyze /\ [][NextAnalyze]_vars

----------------------------------------------------------------------------
(* Claims about the whole run *)

\* C12: a run whose index yields no capture at all ends by raising the
\* explicit InsufficientData error instead of reading the first and last
\* element of the empty list.
C12_EmptyRaisesInsufficientData ==
    (runPc = "done" /\ Len(allCaptures) = 0) =>
        analysis = [kind |-> "error", error |-> "InsufficientData"]

\* C13: when the live page cannot be fetched the run fails: it raises an
\* error and returns no result.
C13_CurrentFailureFatal ==
    (currentFailed /\ runPc = "done") => analysis.kind = "error"

\* the years getAllCaptures has to query, newest first
YearsToQuery == [i \in 1..(yearRange + 1) |-> getFullYear(today) - i + 1]

\* C14: a failed year query or day query never ends the run.  After a failed
\* day query nothing is recorded for the day and the next entry of the year is
\* examined; after a failed year query the captures collected so far are kept
\* and the year before is queried; every year of the range is queried.
C14_IndexFailuresNotFatal ==
    [][/\ (runPc = "years" /\ lastQuery'.kind = "year" /\ ~lastQuery'.ok) =>
             /\ runPc' = "years"
             /\ loopYear' = loopYear - 1
             /\ allCaptures' = allCaptures
             /\ analysis' = [kind |-> "none"]
       /\ (runPc = "days" /\ lastQuery'.kind = "day" /\ ~lastQuery'.ok) =>
             /\ runPc' = "days"
             /\ itemIdx' = itemIdx + 1
             /\ yearCaptures' = yearCaptures
             /\ allCaptures' = allCaptures
             /\ analysis' = [kind |-> "none"]
       /\ (runPc = "years" /\ runPc' = "fetching") => queriedYears = YearsToQuery
      ]_vars

\* a result built from the captures of 2025 although the query of 2026 and
\* the query of 5 January 2025 failed
C14_Witness ==
    /\ runPc = "done"
    /\ analysis.kind = "result"
    /\ failedUnits = {2026, 20250105}
    /\ analysis.totalCaptures = 1
    /\ getFullYear(analysis.firstCapture) = 2025

\* a status that stands for a redirect
IsRedirect(status) == status \in 300..399

\* C15: getYearCaptures returns at most maxYearlyCaptures days, each with at
\* least one snapshot; entries are examined in the provider's order; an entry
\* with a redirect status or a zero count causes no day query; and no day query
\* is made once maxYearlyCaptures days have been recorded.
C15_CapRespected ==
    [][/\ (runPc = "days" /\ runPc' = "years") =>
             /\ Len(yearCaptures) <= maxYearlyCaptures
             /\ \A i \in 1..Len(yearCaptures) : Len(yearCaptures[i].snapshots) >= 1
       /\ (runPc = "days" /\ itemIdx <= Len(yearItems) /\ itemIdx' # itemIdx) =>
             /\ (IsRedirect(yearItems[itemIdx][2]) \/ yearItems[itemIdx][3] = 0) =>
                    lastQuery'.kind = "none"
             /\ Len(yearCaptures) >= maxYearlyCaptures => lastQuery'.kind = "none"
             /\ lastQuery'.kind = "day" =>
                    lastQuery'.unit = loopYear * 10000 + yearItems[itemIdx][1]
      ]_vars

\* C16: the list given to the backward scan is sorted by ascending timestamp;
\* firstCapture is its first and lastCapture its last element, so firstCapture
\* is not after lastCapture; totalCaptures is its length.
C16_SortedFirstLastTotal ==
    /\ runPc \in {"scanning", "done"} =>
          \A i, j \in 1..Len(captures) :
              i < j => captures[i].timestamp <= captures[j].timestamp
    /\ analysis.kind = "result" =>
          /\ analysis.firstCapture = captures[1].timestamp
          /\ analysis.lastCapture = captures[Len(captures)].timestamp
          /\ analysis.firstCapture <= analysis.lastCapture
          /\ \A i \in 1..Len(captures) :
                /\ analysis.firstCapture <= captures[i].timestamp
                /\ captures[i].timestamp <= analysis.lastCapture
          /\ analysis.totalCaptures = Len(captures)

\* a result over captures of both years, which were collected newest year first
C16_Witness ==
    /\ analysis.kind = "result"
    /\ analysis.totalCaptures >= 3
    /\ getFullYear(analysis.firstCapture) = 2025
    /\ getFullYear(analysis.lastCapture) = 2026

\* the snapshots whose content could not be fetched, by position
FailedSnapshots == {i \in 1..Len(captures) : captures[i].failed}

\* C21: a snapshot whose content cannot be fetched stays in the analysed list
\* with similarity 0, and the run goes on: it returns a result in which the
\* snapshot counts in totalCaptures and in the divisor of the average.
C21_FailedSnapshotKept ==
    /\ \A i \in FailedSnapshots :
          /\ captures[i].timestamp = allCaptures[i].timestamp
          /\ captures[i].similarity = 0
    /\ (runPc = "done" /\ FailedSnapshots # {}) =>
          /\ analysis.kind = "result"
          /\ analysis.totalCaptures = Len(captures)
          /\ analysis.similarityScore.count = Len(captures)

====
